---- MODULE Spec2Model ----
(***************************************************************************)
(* Model of the storage provisioning layer (sebs/storage/minio.py) and of  *)
(* the experiment driver (scripts/cloud_experiments.py).                   *)
(*                                                                         *)
(* Strings are sequences: a bucket name is a sequence of one-character     *)
(* strings, so that Python's substring test and slicing are computed, and  *)
(* an address is a sequence of tokens, so that "{}:{}".format(...) is a    *)
(* concatenation whose emptiness can be tested.                            *)
(***************************************************************************)
EXTENDS Integers, Sequences, FiniteSets, TLC

\* ------------------------------------------------------------------ bounds
\* Containers the docker daemon launches in one behaviour.
MaxContainers == 2
\* Length of each of the two bucket lists of a backend object.
MaxBuckets == 1
\* Number of distinct values uuid.uuid4() can return in one behaviour.
NumUuids == 2
\* Object keys a bucket can hold in one behaviour.
MaxObjects == 3
\* Threads that issue storage operations through one client.
MaxCallers == 11

\* --------------------------------------------------------------- strings
\* Python: None for a container handle.
NoContainer == 0

\* The empty Python string.
EmptyStr == << >>

\* Value of an attribute that __init__ never sets (_url, _port, keys).
Unset == <<"<unset>">>

\* Python: `name in bucket_name` for strings (substring containment).
Contains(name, s) ==
    \E i \in 0..(Len(s) - Len(name)) : SubSeq(s, i + 1, i + Len(name)) = name

\* Python: s[0:n].
Slice0(s, n) == SubSeq(s, 1, IF n < Len(s) THEN n ELSE Len(s))

HexChars == <<"0","1","2","3","4","5","6","7","8","9","a","b","c","d","e","f">>

\* The k-th random hex digit of the seed-th uuid (a fixed pseudo-random table).
Nibble(seed, k) == HexChars[((seed * 5 + k * k + k * 3 * seed) % 16) + 1]

\* str(uuid.uuid4()): 8-4-4-4-12 hex digits, version digit 4, variant 8..b.
Uuid4Str(seed) ==
    [i \in 1..36 |->
        IF i \in {9, 14, 19, 24} THEN "-"
        ELSE IF i = 15 THEN "4"
        ELSE IF i = 20 THEN HexChars[9 + (seed % 4)]
        ELSE Nibble(seed, i)]

Uuids == 1..NumUuids

\* Benchmark names handed to the storage layer as logical bucket names.
Benchmarks == { <<"f">>, <<"g">> }

Ports == {9000, 9001}

\* str(port)
PortStr(p) == IF p = 9000 THEN "9000" ELSE "9001"

\* The port the minio server listens on inside its container.
ContainerPort == "9000"

\* secrets.token_urlsafe(32) / secrets.token_hex(32): fresh random strings.
AccessKeys == {"ak1"}
SecretKeys == {"sk1"}

\* Bridge address docker assigns to container c.
BridgeIP(c) == <<"172.17.0." \o ToString(c + 1)>>

\* "{IPAddress}:{Port}".format(IPAddress=ip, Port=port)
FormatUrl(ip, port) == ip \o <<":">> \o <<PortStr(port)>>

\* Python truthiness of a string: `not s` is true for the empty string only.
IsEmptyStr(s) == Len(s) = 0

\* A bucket name cut after the first group of the uuid.
BucketNameShort(name, seed) == name \o <<"-">> \o Slice0(Uuid4Str(seed), 8)

\* "{}-{}".format(name, str(uuid.uuid4())[0:16])
BucketName(name, seed) == name \o <<"-">> \o Slice0(Uuid4Str(seed), 16)

\* All orders in which a listing call can return the set S.
Enumerations(S) ==
    { s \in [1..Cardinality(S) -> S] :
        \A i, j \in 1..Cardinality(S) : i # j => s[i] # s[j] }

\* ------------------------------------------------------------------ state
VARIABLES
    docker,         \* the daemon's containers, by id: alive, ip, port, buckets
    obj,            \* the Minio object the process holds
    cached_config,  \* the entry of the resource cache (a dict, by its keys)
    last,           \* what the last operation was given and what it returned
    request,        \* the storage request the http client is carrying out
    pipe,           \* the run of scripts/cloud_experiments.py
    store,          \* one bucket's objects and the calls working on them
    pool            \* the http client's connection pool and its users

svars == <<docker, obj, cached_config, last>>

vars == <<docker, obj, cached_config, last, request, pipe, store, pool>>

\* Minio.__init__, with the bucket lists of the PersistentStorage base class.
NewMinio ==
    [ storage_container |-> NoContainer,
      url               |-> Unset,
      port              |-> 0,
      access_key        |-> "<unset>",
      secret_key        |-> "<unset>",
      input_buckets     |-> << >>,
      output_buckets    |-> << >>,
      connection        |-> [open |-> FALSE, url |-> Unset,
                             access_key |-> "<unset>", secret_key |-> "<unset>"] ]

\* The dict {}.
EmptyDict ==
    [ keys |-> {}, instance_id |-> NoContainer, address |-> EmptyStr, port |-> 0,
      secret_key |-> "", access_key |-> "", input |-> << >>, output |-> << >>,
      type |-> "" ]

AllKeys ==
    {"instance_id", "address", "port", "secret_key", "access_key",
     "input", "output", "type"}

\* The record of an operation that has not happened.
NoOp ==
    [ op |-> "init", err |-> "", cause |-> "", name |-> EmptyStr, buckets |-> << >>,
      bucket_name |-> EmptyStr, made |-> FALSE, ip |-> EmptyStr,
      reloaded |-> FALSE, launched |-> FALSE ]

\* Whether container c exists in daemon state d (a stopped one is removed).
Alive(d, c) == c \in 1..Len(d) /\ d[c].alive

\* The container whose minio server answers at `url`, or NoContainer.
Reach(d, url) ==
    LET cs == { c \in 1..Len(d) :
                  /\ d[c].alive
                  /\ ~IsEmptyStr(d[c].ip)
                  /\ url = d[c].ip \o <<":">> \o <<ContainerPort>> }
    IN IF cs = {} THEN NoContainer ELSE CHOOSE c \in cs : TRUE

\* The host part of an address "host:port"; "" when there is none.
HostOf(url) == IF Len(url) > 0 /\ url[1] # ":" THEN url[1] ELSE ""

\* Minio.get_connection: minio.Minio(url, access_key, secret_key, ...).  The
\* constructor does no I/O.  What it does with an address that has no host
\* is the library's business: it may refuse it or build a client around it.
get_connection(o) ==
    LET client == [open |-> TRUE, url |-> o.url,
                   access_key |-> o.access_key, secret_key |-> o.secret_key]
    IN IF HostOf(o.url) = ""
       THEN { [err |-> "InvalidEndpoint", connection |-> o.connection],
              [err |-> "", connection |-> client] }
       ELSE { [err |-> "", connection |-> client] }

\* The error configure_connection raises for an empty address (line 91).
EmptyAddressError == "RuntimeError: Incorrect detection of IP address"

\* The branch of configure_connection taken when _url == "": reload the
\* container, format the address, test it for emptiness.
ResolveUrl(d, o) ==
    IF o.storage_container = NoContainer
    THEN [err |-> "AttributeError", obj |-> o, reloaded |-> FALSE, ip |-> EmptyStr]
    ELSE IF ~Alive(d, o.storage_container)
    THEN [err |-> "NotFound", obj |-> o, reloaded |-> FALSE, ip |-> EmptyStr]
    ELSE LET ip == d[o.storage_container].ip
             o1 == [o EXCEPT !.url = FormatUrl(ip, o.port)]
         IN IF IsEmptyStr(o1.url)
            THEN [err |-> EmptyAddressError,
                  obj |-> o1, reloaded |-> TRUE, ip |-> ip]
            ELSE [err |-> "", obj |-> o1, reloaded |-> TRUE, ip |-> ip]

\* configure_connection resolving the address from the container whatever
\* the object's address is.
ConfigureConnectionAlwaysResolves(d, o) ==
    LET r == ResolveUrl(d, o)
    IN IF r.err # ""
       THEN { r }
       ELSE { [err |-> c.err, obj |-> [r.obj EXCEPT !.connection = c.connection],
               reloaded |-> r.reloaded, ip |-> r.ip] : c \in get_connection(r.obj) }

\* Minio.configure_connection: the outcomes of one call on object o.
configure_connection(d, o) ==
    LET r == IF o.url = EmptyStr
             THEN ResolveUrl(d, o)
             ELSE [err |-> "", obj |-> o, reloaded |-> FALSE, ip |-> EmptyStr]
    IN IF r.err # ""
       THEN { r }
       ELSE { [err |-> c.err, obj |-> [r.obj EXCEPT !.connection = c.connection],
               reloaded |-> r.reloaded, ip |-> r.ip] : c \in get_connection(r.obj) }

\* serialize with the two bucket lists exchanged.
SerializeSwapped(o) ==
    IF o.storage_container # NoContainer
    THEN [ keys |-> AllKeys, instance_id |-> o.storage_container,
           address |-> o.url, port |-> o.port, secret_key |-> o.secret_key,
           access_key |-> o.access_key, input |-> o.output_buckets,
           output |-> o.input_buckets, type |-> "minio" ]
    ELSE EmptyDict

\* Minio.serialize
serialize(o) ==
    IF o.storage_container # NoContainer
    THEN [ keys |-> AllKeys,
           instance_id |-> o.storage_container,
           address |-> o.url,
           port |-> o.port,
           secret_key |-> o.secret_key,
           access_key |-> o.access_key,
           input |-> o.input_buckets,
           output |-> o.output_buckets,
           type |-> "minio" ]
    ELSE EmptyDict

\* The message of deserialize's except clause.
CachedContainerGone == "RuntimeError: Cached container not available anymore"

\* The object deserialize has built when it calls configure_connection.
DeserializedFields(cfg, container) ==
    [ NewMinio EXCEPT !.storage_container = container,
                      !.url = cfg.address,
                      !.port = cfg.port,
                      !.access_key = cfg.access_key,
                      !.secret_key = cfg.secret_key,
                      !.input_buckets = cfg.input,
                      !.output_buckets = cfg.output ]

\* Minio.deserialize: the outcomes of one call on a cache entry that carries
\* every key but, possibly, instance_id.
deserialize(d, cfg) ==
    IF "instance_id" \in cfg.keys /\ ~Alive(d, cfg.instance_id)
    THEN { [err |-> CachedContainerGone, obj |-> NewMinio,
            reloaded |-> FALSE, ip |-> EmptyStr] }
    ELSE LET container == IF "instance_id" \in cfg.keys
                          THEN cfg.instance_id ELSE NoContainer
         IN { IF r.err = "NotFound"
              THEN [r EXCEPT !.err = CachedContainerGone]
              ELSE r : r \in configure_connection(d, DeserializedFields(cfg, container)) }

\* The scan of _create_bucket: the first listed name that contains `name`,
\* the empty string when there is none.
RECURSIVE FirstMatch(_, _)
FirstMatch(name, buckets) ==
    IF buckets = << >> THEN EmptyStr
    ELSE IF Contains(name, Head(buckets)) THEN Head(buckets)
    ELSE FirstMatch(name, Tail(buckets))

\* connection.make_bucket(bucket_name) on the server of container c.
make_bucket(d, c, bucket_name) ==
    IF bucket_name \in d[c].buckets
    THEN { [err |-> "BucketAlreadyOwnedByYou", docker |-> d] }
    ELSE { [err |-> "ResponseError", docker |-> d],
           [err |-> "", docker |-> [d EXCEPT ![c].buckets = @ \cup {bucket_name}]] }

\* _create_bucket without its scan of the existing buckets: it always creates.
CreateBucketNoScan(d, o, name, buckets, seed) ==
    LET bucket_name == BucketName(name, seed)
        c == Reach(d, o.connection.url)
    IN IF ~o.connection.open \/ c = NoContainer
       THEN { [err |-> "ConnectionError", bucket_name |-> EmptyStr,
               made |-> TRUE, docker |-> d] }
       ELSE { [err |-> r.err,
               bucket_name |-> IF r.err = "" THEN bucket_name ELSE EmptyStr,
               made |-> TRUE, docker |-> r.docker] : r \in make_bucket(d, c, bucket_name) }

\* Minio._create_bucket(name, buckets) on object o, uuid4() returning `seed`:
\* what it returns or raises, whether it called make_bucket, the daemon after.
_create_bucket(d, o, name, buckets, seed) ==
    LET m == FirstMatch(name, buckets)
        bucket_name == BucketName(name, seed)
        c == Reach(d, o.connection.url)
    IN IF m # EmptyStr
       THEN { [err |-> "", bucket_name |-> m, made |-> FALSE, docker |-> d] }
       ELSE IF ~o.connection.open
       THEN { [err |-> "AttributeError", bucket_name |-> EmptyStr,
               made |-> FALSE, docker |-> d] }
       ELSE IF c = NoContainer
       THEN { [err |-> "ConnectionError", bucket_name |-> EmptyStr,
               made |-> TRUE, docker |-> d] }
       ELSE { [err |-> r.err,
               bucket_name |-> IF r.err = "" THEN bucket_name ELSE EmptyStr,
               made |-> TRUE, docker |-> r.docker] : r \in make_bucket(d, c, bucket_name) }

\* Minio.list_buckets(bucket_name) on the server of container c.
list_buckets(d, c, bucket_name) == { b \in d[c].buckets : Contains(bucket_name, b) }

\* The message start() raises whatever went wrong inside its try block.
StartFailed == "RuntimeError: Starting Minio storage unsuccesful"

\* A record of operation `op` with nothing else to report.
L(op) == [NoOp EXCEPT !.op = op]

\* The containers docker may hand back for a successful containers.run on
\* `port`: up with its bridge address, up with the address not yet
\* assigned, or already exited (and, with remove=True, removed).
\* What the daemon keeps of a container that is gone (remove=True): nothing.
Removed(box) == [alive |-> FALSE, ip |-> EmptyStr, port |-> box.port, buckets |-> {}]

Launches(d, port) ==
    LET c == Len(d) + 1
    IN { [alive |-> TRUE, ip |-> BridgeIP(c), port |-> port, buckets |-> {}],
         [alive |-> TRUE, ip |-> EmptyStr, port |-> port, buckets |-> {}],
         [alive |-> FALSE, ip |-> EmptyStr, port |-> port, buckets |-> {}] }

\* Lines 49-52 of start(): the fields set before the try block.
StartFields(o, port, ak, sk) ==
    [o EXCEPT !.port = port, !.access_key = ak, !.secret_key = sk, !.url = EmptyStr]

\* Minio.start(port), containers.run raising APIError (daemon unreachable,
\* port already bound, image pull failure).
StartRunFails(port) ==
    \E ak \in AccessKeys, sk \in SecretKeys :
        /\ obj' = StartFields(obj, port, ak, sk)
        /\ last' = [L("start") EXCEPT !.err = StartFailed, !.cause = "APIError"]
        /\ UNCHANGED <<docker, cached_config, request, pipe, store, pool>>

\* Minio.start(port), containers.run returning a container: the handle is
\* stored and configure_connection runs inside the same try block.
StartRuns(port) ==
    /\ Len(docker) < MaxContainers
    /\ \A c \in 1..Len(docker) : docker[c].alive => docker[c].port # port
    /\ \E ak \in AccessKeys, sk \in SecretKeys, box \in Launches(docker, port) :
         LET d1 == Append(docker, box)
             o1 == [StartFields(obj, port, ak, sk)
                       EXCEPT !.storage_container = Len(d1)]
         IN \E r \in configure_connection(d1, o1) :
              /\ docker' = d1
              /\ obj' = r.obj
              /\ last' = [L("start") EXCEPT
                            !.err = IF r.err = "" THEN "" ELSE StartFailed,
                            !.cause = r.err, !.ip = r.ip,
                            !.reloaded = r.reloaded, !.launched = TRUE]
    /\ UNCHANGED <<cached_config, request, pipe, store, pool>>

\* Minio.stop(): what it raises and the daemon after it.
stop(d, o) ==
    IF o.storage_container = NoContainer
    THEN [err |-> "", cause |-> "logged: storage container not known", docker |-> d]
    ELSE IF ~Alive(d, o.storage_container)
    THEN [err |-> "NotFound", cause |-> "", docker |-> d]
    ELSE [err |-> "", cause |-> "",
          docker |-> [d EXCEPT ![o.storage_container] = Removed(@)]]

Stop ==
    LET r == stop(docker, obj)
    IN /\ docker' = r.docker
       /\ last' = [L("stop") EXCEPT !.err = r.err, !.cause = r.cause]
       /\ UNCHANGED <<obj, cached_config, request, pipe, store, pool>>

\* The bucket list of `role` with one more name.
AddBucket(o, role, bucket_name) ==
    IF role = "input"
    THEN [o EXCEPT !.input_buckets = Append(@, bucket_name)]
    ELSE [o EXCEPT !.output_buckets = Append(@, bucket_name)]

\* One bucket request of the input preparer for benchmark `name`: the
\* existing buckets are listed, _create_bucket is called with them and its
\* result is appended to the list of `role`.
EnsureBucket(role, name) ==
    /\ Len(IF role = "input" THEN obj.input_buckets ELSE obj.output_buckets)
          < MaxBuckets
    /\ LET c == Reach(docker, obj.connection.url)
       IN IF ~obj.connection.open \/ c = NoContainer
          THEN /\ last' = [L("list_buckets") EXCEPT
                             !.err = IF obj.connection.open
                                     THEN "ConnectionError" ELSE "AttributeError",
                             !.name = name]
               /\ UNCHANGED <<docker, obj>>
          ELSE \E listing \in Enumerations(list_buckets(docker, c, name)),
                  seed \in Uuids :
                 \E r \in _create_bucket(docker, obj, name, listing, seed) :
                    /\ docker' = r.docker
                    /\ obj' = IF r.err = ""
                              THEN AddBucket(obj, role, r.bucket_name) ELSE obj
                    /\ last' = [L("_create_bucket") EXCEPT
                                  !.err = r.err, !.name = name,
                                  !.buckets = listing,
                                  !.bucket_name = r.bucket_name,
                                  !.made = r.made]
    /\ UNCHANGED <<cached_config, request, pipe, store, pool>>

\* The cache's save of the backend's snapshot: serialize() and persist it.
Save ==
    /\ cached_config' = serialize(obj)
    /\ last' = L("serialize")
    /\ UNCHANGED <<docker, obj, request, pipe, store, pool>>

\* Entries written by a backend that is not self-hosted: no instance_id.
ForeignEntries ==
    { [ keys |-> AllKeys \ {"instance_id"}, instance_id |-> NoContainer,
        address |-> a, port |-> 9000, secret_key |-> "sk0",
        access_key |-> "ak0", input |-> << >>, output |-> << >>,
        type |-> "minio" ] :
      a \in { FormatUrl(BridgeIP(c), 9000) : c \in 1..MaxContainers } }

\* The cache file holds an entry without instance_id.
ForeignEntry ==
    /\ cached_config' \in ForeignEntries
    /\ last' = L("foreign_entry")
    /\ UNCHANGED <<docker, obj, request, pipe, store, pool>>

\* A new process finds an entry in the cache and restores the backend from
\* it: the handle it holds afterwards is what deserialize returned, and none
\* (a fresh, unstarted object) when deserialize raised.
Restore ==
    /\ cached_config.keys # {}
    /\ \E r \in deserialize(docker, cached_config) :
         /\ obj' = IF r.err = "" THEN r.obj ELSE NewMinio
         /\ last' = [L("deserialize") EXCEPT !.err = r.err, !.ip = r.ip,
                                             !.reloaded = r.reloaded]
    /\ UNCHANGED <<docker, cached_config, request, pipe, store, pool>>

\* A container is removed behind the program's back.
ContainerDies(c) ==
    /\ Alive(docker, c)
    /\ docker' = [docker EXCEPT ![c] = Removed(@)]
    /\ last' = L("container_dies")
    /\ UNCHANGED <<obj, cached_config, request, pipe, store, pool>>

StorageInit ==
    /\ docker = << >>
    /\ obj = NewMinio
    /\ cached_config = EmptyDict
    /\ last = NoOp

StorageNext ==
    \/ \E port \in Ports : StartRunFails(port)
    \/ \E port \in Ports : StartRuns(port)
    \/ Stop
    \/ \E role \in {"input", "output"}, name \in Benchmarks : EnsureBucket(role, name)
    \/ Save
    \/ ForeignEntry
    \/ Restore
    \/ \E c \in 1..MaxContainers : ContainerDies(c)

\* ------------------------------------------------ the http client's retries
\* urllib3.Retry(total=5, ...): the number of retries allowed.
RetryTotal == 5

\* urllib3.Retry(..., status_forcelist=[500, 502, 503, 504])
status_forcelist == {500, 502, 503, 504}

\* urllib3.Retry.DEFAULT_ALLOWED_METHODS, in force as none is given.
DEFAULT_ALLOWED_METHODS == {"HEAD", "GET", "PUT", "DELETE", "OPTIONS", "TRACE"}

\* urllib3.Retry.RETRY_AFTER_STATUS_CODES, in force as
\* respect_retry_after_header is left at its default, True.
RETRY_AFTER_STATUS_CODES == {413, 429, 503}

\* The methods of the storage requests: listings, creations and uploads,
\* multi-object deletions.
Methods == {"GET", "PUT", "POST"}

\* What the transport can answer to one attempt: a status, with or without
\* a Retry-After header, or no response at all (status 0: connection error).
ConnectError == [status |-> 0, retry_after |-> FALSE]

Responses ==
    { [status |-> st, retry_after |-> FALSE] :
        st \in {200, 404, 429, 500, 502, 503, 504} }
      \cup { [status |-> st, retry_after |-> TRUE] : st \in {404, 429} }
      \cup { ConnectError }

\* urllib3.Retry.is_retry(method, status_code, has_retry_after)
is_retry(total, method, status, has_retry_after) ==
    IF method \notin DEFAULT_ALLOWED_METHODS THEN FALSE
    ELSE IF status \in status_forcelist THEN TRUE
    ELSE /\ total # 0
         /\ has_retry_after
         /\ status \in RETRY_AFTER_STATUS_CODES

\* is_exhausted counting the last allowed retry as one too many.
IsExhaustedAtZero(total) == total <= 0

\* urllib3.Retry.is_exhausted(): the counters that are neither None nor 0
\* (here `total` alone can be), and whether the least of them is negative.
is_exhausted(total) ==
    LET retry_counts == {total} \ {0}
    IN IF retry_counts = {} THEN FALSE ELSE \E n \in retry_counts : n < 0

\* HTTPConnectionPool.urlopen after one attempt that was answered `resp`:
\* the response is returned, or Retry.increment() takes one retry off
\* `total` and either raises MaxRetryError or lets the request be sent again.
urlopen(req, resp) ==
    LET r1 == [req EXCEPT !.sent = @ + 1, !.history = Append(@, resp)]
        retry == \/ resp = ConnectError
                 \/ is_retry(req.total, req.method, resp.status, resp.retry_after)
        total == req.total - 1
    IN IF ~retry
       THEN [r1 EXCEPT !.outcome = "response"]
       ELSE IF is_exhausted(total)
       THEN [r1 EXCEPT !.total = total, !.outcome = "MaxRetryError"]
       ELSE [r1 EXCEPT !.total = total]

NoRequest ==
    [ method |-> "GET", total |-> RetryTotal, sent |-> 0, history |-> << >>,
      outcome |-> "idle" ]

\* The storage client starts a request with the pool's Retry configuration.
NewRequest(method) ==
    /\ request.outcome # "pending"
    /\ request' = [NoRequest EXCEPT !.method = method, !.outcome = "pending"]
    /\ UNCHANGED <<docker, obj, cached_config, last, pipe, store, pool>>

\* One attempt of the pending request and the transport's answer to it.
Send(resp) ==
    /\ request.outcome = "pending"
    /\ request' = urlopen(request, resp)
    /\ UNCHANGED <<docker, obj, cached_config, last, pipe, store, pool>>

RetryNext ==
    \/ \E method \in Methods : NewRequest(method)
    \/ \E resp \in Responses : Send(resp)

\* ------------------------------------------- scripts/cloud_experiments.py
Clouds == {"azure", "aws"}
Languages == {"python", "nodejs", "cpp"}
Sizes == {"test", "small", "large"}

\* The name `client` before any assignment to it.
Undefined == "<undefined>"

NoRun ==
    [ pc |-> "parse_args", cloud |-> "", language |-> "", size |-> "",
      client |-> Undefined, ran |-> << >>, error |-> "" ]

\* The run stops with an exception.
Raise(p, error) == [p EXCEPT !.pc = "failed", !.error = error]

\* A stage has run and the run goes on to the statement at `next`.
Ran(p, stage, next) == [p EXCEPT !.pc = next, !.ran = Append(@, stage)]

\* Line 21: parser.parse_args() with accepted values.
ParseArgs(cloud, language, size) ==
    /\ pipe.pc = "parse_args"
    /\ pipe' = [pipe EXCEPT !.pc = "client", !.cloud = cloud,
                            !.language = language, !.size = size]
    /\ UNCHANGED <<docker, obj, cached_config, last, request, store, pool>>

\* Lines 24-29: `client = aws()` for aws, `pass` for anything else.
CreateCloudObject ==
    /\ pipe.pc = "client"
    /\ pipe' = IF pipe.cloud = "aws"
               THEN [pipe EXCEPT !.pc = "create_output", !.client = "aws"]
               ELSE [pipe EXCEPT !.pc = "create_output"]
    /\ UNCHANGED <<docker, obj, cached_config, last, request, store, pool>>

\* Lines 25-26 raising: the provider module or its constructor fails.
CreateCloudObjectRaises ==
    /\ pipe.pc = "client"
    /\ pipe.cloud = "aws"
    /\ pipe' = Raise(pipe, "aws: " \o "client construction failed")
    /\ UNCHANGED <<docker, obj, cached_config, last, request, store, pool>>

\* The order of the statements after client construction, with `stage` and
\* its successor swapped in the sequence.
NextStatementSwapped(stage) ==
    CASE stage = "create_output" -> "create_code_package"
      [] stage = "create_code_package" -> "find_benchmark"
      [] stage = "find_benchmark" -> "prepare_input"
      [] stage = "prepare_input" -> "get_storage"
      [] stage = "get_storage" -> "generate_input"
      [] stage = "generate_input" -> "done"

\* The statement after stage `stage`: lines 48, 52, 56, 60 of the script
\* and lines 36, 38 of prepare_input.
NextStatement(stage) ==
    CASE stage = "create_output" -> "find_benchmark"
      [] stage = "find_benchmark" -> "create_code_package"
      [] stage = "create_code_package" -> "prepare_input"
      [] stage = "prepare_input" -> "get_storage"
      [] stage = "get_storage" -> "generate_input"
      [] stage = "generate_input" -> "done"

\* Lines 48, 52 and 56: create_output, find_benchmark, create_code_package,
\* each returning or raising.
Stage(stage) ==
    /\ pipe.pc = stage
    /\ \E ok \in BOOLEAN :
         pipe' = IF ok THEN Ran(pipe, stage, NextStatement(stage))
                 ELSE Raise(Ran(pipe, stage, stage), stage \o " failed")
    /\ UNCHANGED <<docker, obj, cached_config, last, request, store, pool>>

\* Line 60: prepare_input(client, ...).  The arguments are evaluated first:
\* an unassigned `client` is a NameError and the function is not entered.
\* Lines 33-35: the benchmark's input module is imported and asked for its
\* bucket count.
PrepareInput ==
    /\ pipe.pc = "prepare_input"
    /\ \E ok \in BOOLEAN :
         pipe' = IF pipe.client = Undefined
                 THEN Raise(pipe, "NameError: name 'client' is not defined")
                 ELSE IF ok THEN [pipe EXCEPT !.pc = NextStatement("prepare_input")]
                 ELSE Raise(pipe, "import of the input module failed")
    /\ UNCHANGED <<docker, obj, cached_config, last, request, store, pool>>

\* Line 36: storage = client.get_storage(benchmark, buckets, False).
GetStorage ==
    /\ pipe.pc = "get_storage"
    /\ \E ok \in BOOLEAN :
         pipe' = IF ok THEN Ran(pipe, "get_storage", NextStatement("get_storage"))
                 ELSE Raise(Ran(pipe, "get_storage", "get_storage"),
                            "get_storage failed")
    /\ UNCHANGED <<docker, obj, cached_config, last, request, store, pool>>

\* Line 38: mod.generate_input(size, input_buckets, output_buckets,
\* uploader_func) on the storage line 36 returned.
GenerateInput ==
    /\ pipe.pc = "generate_input"
    /\ \E ok \in BOOLEAN :
         pipe' = IF ok
                 THEN Ran(pipe, "generate_input", NextStatement("generate_input"))
                 ELSE Raise(Ran(pipe, "generate_input", "generate_input"),
                            "generate_input failed")
    /\ UNCHANGED <<docker, obj, cached_config, last, request, store, pool>>

PipelineNext ==
    \/ \E cloud \in Clouds, language \in Languages, size \in Sizes :
          ParseArgs(cloud, language, size)
    \/ CreateCloudObject
    \/ CreateCloudObjectRaises
    \/ \E stage \in {"create_output", "find_benchmark", "create_code_package"} :
          Stage(stage)
    \/ PrepareInput
    \/ GetStorage
    \/ GenerateInput

\* ------------------------------------------------- the objects of a bucket
\* Object keys, in the order a listing returns them.
Keys == 1..MaxObjects

\* No call of clean_bucket has been made.
NoClean ==
    [ pc |-> "idle", at_call |-> {}, marker |-> 0, listed |-> {},
      logged |-> {}, err |-> "" ]

\* No upload has been asked for.
NoUpload == [ op |-> "none", key |-> 0, transport |-> "", err |-> "" ]

\* What the transport does with the request of an upload: it stores the
\* object, answers with an error response, or fails after its retries.
Transports == {"ok", "ResponseError", "MaxRetryError"}

\* The bucket is empty and nothing works on it.
NoStore == [ objects |-> {}, clean |-> NoClean, up |-> NoUpload ]

\* Minio.clean_bucket(bucket), lines 159-163: the listing and the deletion
\* are set up (a map over the iterator of list_objects, handed to
\* remove_objects); nothing has been enumerated yet.
CleanBucketCall ==
    /\ store.clean.pc \in {"idle", "returned", "raised"}
    /\ store' = [store EXCEPT !.clean = [NoClean EXCEPT !.pc = "listing",
                                            !.at_call = store.objects]]
    /\ UNCHANGED <<docker, obj, cached_config, last, request, pipe, pool>>

\* The iterator of list_objects yields the next key after the marker that
\* is in the bucket now, or ends; a transport failure is raised.
ListObjectsNext ==
    /\ store.clean.pc = "listing"
    /\ LET rest == { k \in store.objects : k > store.clean.marker }
       IN \/ /\ rest # {}
             /\ LET k == CHOOSE x \in rest : \A y \in rest : x <= y
                IN store' = [store EXCEPT !.clean.marker = k,
                                          !.clean.listed = @ \cup {k}]
          \/ /\ rest = {}
             /\ store' = [store EXCEPT !.clean.pc = "removing"]
          \/ store' = [store EXCEPT !.clean.pc = "raised",
                                    !.clean.err = "MaxRetryError"]
    /\ UNCHANGED <<docker, obj, cached_config, last, request, pipe, pool>>

\* connection.remove_objects(bucket, delete_object_list) and the loop of
\* lines 164-165: the server deletes the listed keys except those it
\* reports an error for; each reported error is logged, none is raised.
RemoveObjects ==
    /\ store.clean.pc = "removing"
    /\ \/ \E errors \in SUBSET store.clean.listed :
             store' = [store EXCEPT
                         !.objects = @ \ (store.clean.listed \ errors),
                         !.clean.logged = errors,
                         !.clean.pc = "returned"]
       \/ store' = [store EXCEPT !.clean.pc = "raised",
                                 !.clean.err = "MaxRetryError"]
    /\ UNCHANGED <<docker, obj, cached_config, last, request, pipe, pool>>

\* Another actor stores a new object in the bucket (while clean_bucket is
\* at work, one that was not there when it was called).
ConcurrentPut(k) ==
    /\ k \notin store.objects
    /\ store.clean.pc \in {"listing", "removing"} => k \notin store.clean.at_call
    /\ store' = [store EXCEPT !.objects = @ \cup {k}]
    /\ UNCHANGED <<docker, obj, cached_config, last, request, pipe, pool>>

\* Minio.upload(bucket_name, filepath, key), lines 188-189.
upload(st, key, transport) ==
    [st EXCEPT !.up = [op |-> "upload", key |-> key, transport |-> transport,
                       err |-> "NotImplementedError"]]

\* Minio.uploader_func(bucket_idx, file, filepath): fput_object stores the
\* object; a ResponseError is logged and raised again, any other exception
\* passes through the try block untouched.
uploader_func(st, key, transport) ==
    [st EXCEPT !.objects = IF transport = "ok" THEN @ \cup {key} ELSE @,
               !.up = [op |-> "uploader_func", key |-> key,
                       transport |-> transport,
                       err |-> IF transport = "ok" THEN "" ELSE transport]]

\* The process calls upload: not while its clean_bucket is running.
Upload(key, transport) ==
    /\ store.clean.pc \notin {"listing", "removing"}
    /\ store' = upload(store, key, transport)
    /\ UNCHANGED <<docker, obj, cached_config, last, request, pipe, pool>>

\* The input generator calls the uploader callback it was given.
UploaderFunc(key, transport) ==
    /\ store.clean.pc \notin {"listing", "removing"}
    /\ store' = uploader_func(store, key, transport)
    /\ UNCHANGED <<docker, obj, cached_config, last, request, pipe, pool>>

ObjectsNext ==
    \/ CleanBucketCall
    \/ ListObjectsNext
    \/ RemoveObjects
    \/ \E k \in Keys : ConcurrentPut(k)
    \/ \E k \in Keys, transport \in Transports : Upload(k, transport)
    \/ \E k \in Keys, transport \in Transports : UploaderFunc(k, transport)

\* ------------------------------------------- the http client's connections
\* urllib3.PoolManager(..., maxsize=10, ...)
maxsize == 10

\* HTTPConnectionPool(block=...): not given to PoolManager, so the default.
block == FALSE

Callers == 1..MaxCallers

\* HTTPConnectionPool.__init__: a LIFO queue of maxsize places, filled with
\* None; no caller holds a connection.
NewPool == [ queue |-> [i \in 1..maxsize |-> "None"], using |-> {} ]

\* HTTPConnectionPool._get_conn for `caller`: the last entry of the queue
\* is taken, a connection or a None that is replaced by a new connection;
\* when the queue is empty a blocking pool makes the caller wait and a
\* non-blocking one opens a new connection all the same.
_get_conn(caller) ==
    /\ caller \notin pool.using
    /\ IF pool.queue # << >>
       THEN pool' = [pool EXCEPT !.queue = SubSeq(@, 1, Len(@) - 1),
                                 !.using = @ \cup {caller}]
       ELSE /\ ~block
            /\ pool' = [pool EXCEPT !.using = @ \cup {caller}]
    /\ UNCHANGED <<docker, obj, cached_config, last, request, pipe, store>>

\* HTTPConnectionPool._put_conn for `caller`: the connection goes back to
\* the queue, or is closed and discarded when the queue is full.
_put_conn(caller) ==
    /\ caller \in pool.using
    /\ pool' = [pool EXCEPT
                  !.queue = IF Len(@) < maxsize THEN Append(@, "conn") ELSE @,
                  !.using = @ \ {caller}]
    /\ UNCHANGED <<docker, obj, cached_config, last, request, pipe, store>>

PoolNext ==
    \/ \E caller \in Callers : _get_conn(caller)
    \/ \E caller \in Callers : _put_conn(caller)

\* ---------------------------------------------------------- specifications
Init ==
    /\ StorageInit
    /\ request = NoRequest
    /\ pipe = NoRun
    /\ store = NoStore
    /\ pool = NewPool

\* The storage backend, its daemon and its cache.
Spec == Init /\ [][StorageNext]_vars

\* One storage request after another through the http client.
SpecRetry == Init /\ [][RetryNext]_vars

\* One run of the experiment script.
SpecPipeline == Init /\ [][PipelineNext]_vars

\* The callers of one storage client and its connection pool.
SpecPool == Init /\ [][PoolNext]_vars

\* The calls that work on the objects of one bucket, and another actor.
SpecObjects == Init /\ [][ObjectsNext]_vars

\* ------------------------------------------------------------ properties
IsHex(ch) == \E i \in 1..16 : HexChars[i] = ch

\* Whether some name of the list `buckets` contains `name`.
HasMatch(name, buckets) == \E i \in 1..Len(buckets) : Contains(name, buckets[i])

\* The bucket sets of all containers are the same before and after the step.
BucketSetsUnchanged ==
    /\ Len(docker') = Len(docker)
    /\ \A c \in 1..Len(docker) : docker'[c].buckets = docker[c].buckets

\* A backend with a live container and an open client connection to the
\* address the object holds.
IsReady(d, o) ==
    /\ Alive(d, o.storage_container)
    /\ o.connection.open
    /\ o.connection.url = o.url
    /\ HostOf(o.url) # ""

\* C1: _create_bucket called with a list in which some name contains the
\* logical name returns a name of that list that contains the logical name
\* and does not call make_bucket; the step leaves every bucket set as it
\* was, and a call that repeats the arguments of the call before it returns
\* the same name.
C1_ReuseIsIdempotent ==
    /\ [](last.op = "_create_bucket" /\ HasMatch(last.name, last.buckets)
            => /\ last.err = ""
               /\ \E i \in 1..Len(last.buckets) : last.buckets[i] = last.bucket_name
               /\ Contains(last.name, last.bucket_name)
               /\ ~last.made)
    /\ [][last'.op = "_create_bucket" /\ HasMatch(last'.name, last'.buckets)
            => /\ BucketSetsUnchanged
               /\ (last.op = "_create_bucket" /\ last.name = last'.name
                     /\ last.buckets = last'.buckets
                   => last'.bucket_name = last.bucket_name)]_vars

\* C1 witness: two requests were answered with the same existing bucket,
\* the second without a make_bucket call.
C1_Witness ==
    /\ last.op = "_create_bucket" /\ ~last.made /\ last.err = ""
    /\ HasMatch(last.name, last.buckets)
    /\ obj.input_buckets # << >>
    /\ obj.input_buckets = obj.output_buckets

ResourceGone(d, cfg) ==
    IF "instance_id" \in cfg.keys
    THEN ~Alive(d, cfg.instance_id)
    ELSE Reach(d, cfg.address) = NoContainer

\* C3: when the resource a cache entry refers to no longer exists,
\* deserialize raises the cached-container error and returns no handle,
\* whether or not the entry carries instance_id.  (It never launches a
\* container: Restore leaves the daemon as it was.)
C3_RestoreFailsWhenResourceGone ==
    last.op = "deserialize" /\ ResourceGone(docker, cached_config)
        => last.err = CachedContainerGone /\ obj = NewMinio

\* The names of a snapshot's two bucket lists.
SnapshotBuckets(cfg) ==
    { cfg.input[i] : i \in 1..Len(cfg.input) }
        \cup { cfg.output[i] : i \in 1..Len(cfg.output) }

\* C4: at the moment of serialization, every bucket the snapshot names
\* exists on the container the snapshot names.
C4_SnapshotNamesExistingBuckets ==
    last.op = "serialize" /\ cached_config.keys # {}
        => \A b \in SnapshotBuckets(cached_config) :
              /\ Alive(docker, cached_config.instance_id)
              /\ b \in docker[cached_config.instance_id].buckets

\* C7: serialize called right after a start() that failed produces the
\* empty snapshot.
C7_NoSnapshotOfFailedStart ==
    [][last.op = "start" /\ last.err # "" /\ last'.op = "serialize"
        => cached_config'.keys = {}]_vars

\* The 16 characters after "name-" are the head of a uuid4 string:
\* 8 hex digits, "-", 4 hex digits, "-", "4", one hex digit.
IsUuidHead16(s) ==
    /\ Len(s) = 16
    /\ \A i \in (1..8) \cup (10..13) \cup {16} : IsHex(s[i])
    /\ s[9] = "-" /\ s[14] = "-" /\ s[15] = "4"

\* The name is `name`, a hyphen and exactly 8 hex digits.
IsName8Hex(name, s) ==
    /\ Len(s) = Len(name) + 9
    /\ SubSeq(s, 1, Len(name)) = name
    /\ s[Len(name) + 1] = "-"
    /\ \A i \in (Len(name) + 2)..Len(s) : IsHex(s[i])

\* C9 as stated: a bucket created because nothing matched is named
\* name-[0-9a-f]{8}.
C9_NameIsEightHex ==
    last.op = "_create_bucket" /\ ~HasMatch(last.name, last.buckets) /\ last.err = ""
        => IsName8Hex(last.name, last.bucket_name)

\* C9 amended: _create_bucket called with a list in which no name contains
\* the logical name calls make_bucket; when the server accepts, exactly one
\* bucket is added, the returned one, named name-<first 16 characters of a
\* uuid4 string>; when it refuses, the error is raised and nothing is added.
C9_CreatesOneUuid16Bucket ==
    [][last'.op = "_create_bucket" /\ ~HasMatch(last'.name, last'.buckets)
        => /\ last'.made
           /\ IF last'.err = ""
              THEN LET b == last'.bucket_name
                       n == Len(last'.name)
                   IN /\ Len(b) = n + 17
                      /\ SubSeq(b, 1, n) = last'.name
                      /\ b[n + 1] = "-"
                      /\ IsUuidHead16(SubSeq(b, n + 2, n + 17))
                      /\ Len(docker') = Len(docker)
                      /\ \E c \in 1..Len(docker) :
                           /\ b \notin docker[c].buckets
                           /\ docker'[c].buckets = docker[c].buckets \cup {b}
                           /\ \A c2 \in 1..Len(docker) \ {c} :
                                docker'[c2].buckets = docker[c2].buckets
              ELSE last'.bucket_name = EmptyStr /\ BucketSetsUnchanged]_vars

\* C9 witness: a bucket was created for "f" because no listed name matched.
C9_Witness ==
    /\ last.op = "_create_bucket" /\ last.made /\ last.err = ""
    /\ last.name = <<"f">>
    /\ Alive(docker, obj.storage_container)
    /\ last.bucket_name \in docker[obj.storage_container].buckets
    /\ obj.input_buckets = <<last.bucket_name>>

\* C10: when start() launched a container whose address is still empty
\* after reload, configure_connection raises its empty-address error, no
\* client connection is opened and the backend is not Ready.
C10_EmptyAddressFails ==
    last.op = "start" /\ last.launched /\ last.reloaded /\ IsEmptyStr(last.ip)
        => /\ last.cause = EmptyAddressError
           /\ ~obj.connection.open
           /\ ~IsReady(docker, obj)

\* The statuses of the attempts so far.
StatusHistory == [i \in 1..Len(request.history) |-> request.history[i].status]

\* C5 as stated: a request answered 503 at every attempt is sent at most 5
\* times: it has failed after the fifth attempt and there is no sixth.
C5_AtMostFiveSends ==
    (\A i \in 1..Len(request.history) : request.history[i].status = 503)
        => /\ request.sent <= 5
           /\ (request.sent = 5 /\ request.method # "POST"
                 => request.outcome = "MaxRetryError")

\* C5 amended: a request is sent at most 6 times (the first attempt and 5
\* retries).  Answered 503 four times and then 200 it succeeds at the fifth
\* attempt; answered 503 five times it is still pending, and is sent a sixth
\* time; answered 503 six times it fails with MaxRetryError, and nothing is
\* sent once it has an outcome.
C5_AtMostSixSends ==
    /\ request.sent <= RetryTotal + 1
    /\ request.sent = Len(request.history)
    /\ (StatusHistory = <<503, 503, 503, 503, 200>> /\ request.method # "POST"
          => request.outcome = "response")
    /\ (StatusHistory = <<503, 503, 503, 503, 503>> /\ request.method # "POST"
          => request.outcome = "pending")
    /\ (StatusHistory = <<503, 503, 503, 503, 503, 200>> /\ request.method # "POST"
          => request.outcome = "response")
    /\ (StatusHistory = <<503, 503, 503, 503, 503, 503>>
          => request.outcome = "MaxRetryError")
    /\ (request.outcome = "pending" => request.sent <= RetryTotal)

\* C5 witness: six attempts, all answered 503, and the request has failed.
C5_Witness ==
    /\ StatusHistory = <<503, 503, 503, 503, 503, 503>>
    /\ request.outcome = "MaxRetryError"
    /\ request.sent = 6

\* An attempt that was followed by another one.
Retried(i) ==
    \/ i < Len(request.history)
    \/ i = Len(request.history) /\ request.outcome = "pending"

\* C6 as stated: a response is followed by another attempt only when its
\* status is 500, 502, 503 or 504; a 4xx response never is.
C6_RetryOnlyForcelist ==
    \A i \in 1..Len(request.history) :
        LET resp == request.history[i]
        IN resp # ConnectError /\ Retried(i) => resp.status \in {500, 502, 503, 504}

\* C8: with a provider other than aws the run fails at client construction
\* with an explicit unsupported-provider error: no stage runs, and no
\* statement after client construction is reached with an undefined client.
C8_UnsupportedProviderFailsFast ==
    pipe.cloud # "" /\ pipe.cloud # "aws" /\ pipe.pc # "client"
        => /\ pipe.pc = "failed"
           /\ pipe.error = "UnsupportedProviderError"
           /\ pipe.ran = << >>

\* C11: stop() never raises; in particular a stop() that follows a stop()
\* which returned normally (the instance is then already stopped, or was
\* never known) returns normally too.
C11_StopNeverRaises ==
    [][last.op = "stop" /\ last.err = "" /\ last'.op = "stop"
        => last'.err = ""]_vars

\* C12: the lifecycle follows only Uninitialized -> Starting ->
\* ConfiguringConnection -> Ready, Ready -> Ready on a bucket request and
\* Ready -> Stopped on stop(): start() launches no container for a backend
\* that is Ready, a container is stopped only for a backend that is Ready,
\* and a bucket request is answered only by a backend that is Ready and
\* stays Ready.
C12_LifecycleTransitions ==
    [][/\ last'.op = "start" /\ last'.launched => ~IsReady(docker, obj)
       /\ last'.op = "stop" /\ docker' # docker => IsReady(docker, obj)
       /\ last'.op = "_create_bucket" /\ last'.err = ""
            => IsReady(docker, obj) /\ IsReady(docker', obj')]_vars

\* The stages of a run in the order the script names them.
StageOrder ==
    << "create_output", "find_benchmark", "create_code_package",
       "get_storage", "generate_input" >>

C14_CleanRemovesCallTimeObjects ==
    /\ store.clean.pc = "returned" => store.clean.at_call \cap store.objects = {}
    /\ store.clean.pc = "raised" => store.clean.err = "MaxRetryError"

\* C15: at every moment at most 10 connections of the storage client are
\* in use: a caller beyond the 10th waits for a connection to be released.
C15_AtMostTenConnectionsInUse ==
    Cardinality(pool.using) <= 10

\* A backend that serves requests: a client connection to the object's
\* address, a server answering there and, when the object holds a container
\* handle, that container up.
Serving(d, o) ==
    /\ o.connection.open
    /\ o.connection.url = o.url
    /\ Reach(d, o.url) # NoContainer
    /\ o.storage_container # NoContainer => Alive(d, o.storage_container)

\* C16: serialize() of a Ready backend, started or restored, with or
\* without a container handle, returns an entry carrying type, address,
\* port, access_key, secret_key, input and output.
C16_SerializeComplete ==
    last.op = "serialize" /\ Serving(docker, obj)
        => (AllKeys \ {"instance_id"}) \subseteq cached_config.keys

\* C17: upload(bucket, local_path, remote_key) stores the object when the
\* transport works, and otherwise fails with the transport's error
\* unchanged; it never returns normally without the object being stored.
C17_UploadStoresOrPropagates ==
    [][store'.up # store.up /\ store'.up.op = "upload"
        => IF store'.up.transport = "ok"
           THEN store'.up.err = "" /\ store'.up.key \in store'.objects
           ELSE store'.up.err = store'.up.transport]_vars

\* C18: deserialize of an entry whose address is not empty does not reload
\* the container and, when it returns, the object holds the entry's
\* address, port, access key and secret key as they were cached and a
\* connection opened with exactly these; the container is reloaded only
\* for an entry whose address is the empty string.
C18_RestoreReusesCachedParameters ==
    last.op = "deserialize"
        => /\ cached_config.address # EmptyStr => ~last.reloaded
           /\ last.reloaded => cached_config.address = EmptyStr
           /\ last.err = "" /\ cached_config.address # EmptyStr
                => /\ obj.url = cached_config.address
                   /\ obj.port = cached_config.port
                   /\ obj.access_key = cached_config.access_key
                   /\ obj.secret_key = cached_config.secret_key
                   /\ obj.connection =
                        [open |-> TRUE, url |-> cached_config.address,
                         access_key |-> cached_config.access_key,
                         secret_key |-> cached_config.secret_key]

\* C18 witness: a backend was restored from an entry that names its
\* container and a non-empty address, without a reload.
C18_Witness ==
    /\ last.op = "deserialize" /\ last.err = "" /\ ~last.reloaded
    /\ "instance_id" \in cached_config.keys
    /\ cached_config.address # EmptyStr
    /\ obj.connection.open /\ obj.connection.url = cached_config.address

\* C19: every container start() launched is the object's current handle or
\* has been stopped: a start() on an object that holds a running container
\* leaves that container as the handle or stopped.
C19_NoOrphanContainer ==
    [][last'.op = "start" /\ Alive(docker, obj.storage_container)
        => \/ obj'.storage_container = obj.storage_container
           \/ ~Alive(docker', obj.storage_container)]_vars

\* C20: serialize() returns a non-empty snapshot only while the backend is
\* Ready; in particular, called after a stop() that stopped the container
\* it returns the empty value.
C20_EmptySnapshotAfterStop ==
    [][last.op = "stop" /\ last.err = "" /\ ~Alive(docker, obj.storage_container)
         /\ last'.op = "serialize"
        => cached_config'.keys = {}]_vars

====
